---- MODULE Spec2Model ----
(***************************************************************************)
(* Model of graph_migrator.py: the v3 -> v4 business data migration.       *)
(*                                                                         *)
(* Text is modelled as a sequence of tokens: a token is a word or a single *)
(* separator character ("." "_" " " "," "/" "T").  Field names, resource   *)
(* model names, entity type ids and values are all token sequences, so the *)
(* string operations of the source (split, replace, capwords, strptime)    *)
(* are computed on them and are not identities.                            *)
(***************************************************************************)
EXTENDS Integers, Sequences, FiniteSets, TLC

VARIABLES
    pc,          \* position of the operation under way
    input,       \* argument of the operation under way
    output,      \* its return value
    mappings,    \* DTFixer.mappings: resource model name -> its nodes
    graphdiffs,  \* DTFixer.graphdiffs: resource model name -> rename table
    best,        \* the fuzzy scorer: query -> rank of its best-scoring choice
    v4_data,     \* Migrator.v4_data: model name -> (resource id -> entries)
    resource_fieldnames,  \* Migrator.resource_fieldnames: model name -> names
    walk,        \* history of the last process_children call: the nodes in
                 \* the order visited, the nodes in the order their entries
                 \* were appended, the node that raised (0: none)
    csvfiles,    \* the output directory: model name -> the rows of its CSV
    process_model,  \* the argument of migrate_data
    todo,        \* keys of v3_json the loop of migrate_data has yet to finish
    rtype,       \* resource_type of the iteration under way
    nresources,  \* len(resources) of the iteration under way
    budget,      \* resources and nodes of the export not yet met
    contrib,     \* history of the iteration under way: for each resource
                 \* processed, whether one of its nodes is a data node with
                 \* a renamed id, and whether process_children raised
    produced     \* history of the call: the <<model name, resource id>> of
                 \* every resource that got an entry in v4_data

vars == <<pc, input, output, mappings, graphdiffs, best, v4_data,
          resource_fieldnames, walk, csvfiles, process_model, todo, rtype,
          nresources, budget, contrib, produced>>
fixer == <<mappings, graphdiffs, best>>
migrator == <<v4_data, resource_fieldnames, walk>>
driver == <<csvfiles, process_model, todo, rtype, nresources, budget, contrib,
            produced>>

----------------------------------------------------------------------------
(* Bounds *)

MaxEntries == 4          \* longest entry list given to create_resource_rows
MaxMappingNodes == 2     \* most nodes of a mapping drawn for get_v4_fieldname
MaxNodes == 2            \* most nodes of a tree given to process_children
MaxResources == 2        \* most resources of an export given to migrate_data
MaxExportNodes == 1      \* most nodes of the resources of such an export

----------------------------------------------------------------------------
(* Text helpers *)

None == <<"<None>">>       \* Python's None (never a text: "<" is no token of the inputs)

ResourceID == <<"ResourceID">>

Range(s) == {s[i] : i \in DOMAIN s}

EmptyDict == [k \in {} |-> None]

\* a Python dict literal / update: the keys of new win over the keys of old
Update(old, new) == new @@ old

Restrict(f, S) == [k \in S |-> f[k]]

\* an exception leaving the function (KeyError, ValueError, TypeError)
Raised == <<"<raise>">>

Separators == {".", "_", " ", ",", "/", "'"}

\* str.lower on one token
Lower(tok) ==
    CASE tok \in {"NAME", "Name", "name"}    -> "name"
      [] tok \in {"BUILT", "Built", "built"} -> "built"
      [] tok \in {"DATE", "Date", "date"}    -> "date"
      [] tok \in {"OWNER", "Owner", "owner"} -> "owner"
      [] tok \in {"LEGACY", "Legacy"}        -> "legacy"
      [] tok \in {"SITE", "Site", "site"}    -> "site"
      [] tok \in {"ACTOR", "Actor"}          -> "actor"
      [] tok \in {"OLD", "Old"}              -> "old"
      [] tok = "T"                           -> "t"
      [] OTHER                               -> tok

\* str.capitalize on one token
Capitalize(tok) ==
    CASE Lower(tok) = "name"   -> "Name"
      [] Lower(tok) = "built"  -> "Built"
      [] Lower(tok) = "date"   -> "Date"
      [] Lower(tok) = "owner"  -> "Owner"
      [] Lower(tok) = "legacy" -> "Legacy"
      [] Lower(tok) = "site"   -> "Site"
      [] Lower(tok) = "actor"  -> "Actor"
      [] Lower(tok) = "old"    -> "Old"
      [] OTHER                 -> tok

\* s.split(sep)[0]
RECURSIVE SplitHead(_, _)
SplitHead(s, sep) ==
    IF s = <<>> \/ Head(s) = sep THEN <<>>
    ELSE <<Head(s)>> \o SplitHead(Tail(s), sep)

\* s.split(sep)[-1]
RECURSIVE SplitLast(_, _)
SplitLast(s, sep) ==
    IF s = <<>> \/ s[Len(s)] = sep THEN <<>>
    ELSE Append(SplitLast(SubSeq(s, 1, Len(s) - 1), sep), s[Len(s)])

\* s.replace(old, new)
Replace(s, old, new) == [i \in DOMAIN s |-> IF s[i] = old THEN new ELSE s[i]]

\* s.replace(old, "")
Remove(s, old) == SelectSeq(s, LAMBDA tok : tok # old)

\* s.strip() / s.split(): the words of s are its maximal runs without " "
RECURSIVE Strip(_)
Strip(s) ==
    IF s = <<>> THEN s
    ELSE IF Head(s) = " " THEN Strip(Tail(s))
    ELSE IF s[Len(s)] = " " THEN Strip(SubSeq(s, 1, Len(s) - 1))
    ELSE s

WordCount(s) ==
    Cardinality({i \in DOMAIN s : s[i] # " " /\ (i = 1 \/ s[i - 1] = " ")})

\* string.capwords: split on whitespace, capitalize each word, join with " "
RECURSIVE CapJoin(_, _)
CapJoin(s, atStart) ==
    IF s = <<>> THEN <<>>
    ELSE IF Head(s) = " "
         THEN (IF Tail(s) # <<>> /\ Head(Tail(s)) = " " THEN <<>> ELSE <<" ">>)
              \o CapJoin(Tail(s), TRUE)
         ELSE <<IF atStart THEN Capitalize(Head(s)) ELSE Lower(Head(s))>>
              \o CapJoin(Tail(s), FALSE)

capwords(s) == CapJoin(Strip(s), TRUE)

\* capwords(name.split('.')[0].replace('_', ' ')): the fuzzy query of a v3 name
Normalize(name) == capwords(Replace(SplitHead(name, "."), "_", " "))

----------------------------------------------------------------------------
(* fuzzywuzzy.process.extractOne as the source calls it *)

\* the default processor: non-alphanumerics to spaces, lower case, strip
full_process(s) ==
    Strip([i \in DOMAIN s |-> IF s[i] \in Separators THEN " " ELSE Lower(s[i])])

ExactMatches(query, choices) ==
    {i \in DOMAIN choices : full_process(choices[i]) = full_process(query)}

\* extractOne(query, choices): None for no choices; the first choice scoring
\* 100 (equal after processing) when there is one; otherwise the best-scoring
\* choice, which the scorer decides: pick is the scorer's verdict.
extractOne(query, choices, pick) ==
    IF choices = <<>> THEN None
    ELSE IF ExactMatches(query, choices) # {}
         THEN choices[CHOOSE i \in ExactMatches(query, choices) :
                        \A j \in ExactMatches(query, choices) : i <= j]
         ELSE choices[(pick % Len(choices)) + 1]

----------------------------------------------------------------------------
(* DTFixer: the value fixers *)

YMDTokens == {"2003-05-14"}       \* tokens of the form %Y-%m-%d
HMSTokens == {"00:00:00"}         \* tokens of the form %H:%M:%S

fix_string(data) == data

fix_number(data) == Remove(data, ",")

fix_date(data) ==
    IF data = <<>> THEN data
    ELSE IF /\ Len(data) = 3
            /\ data[1] \in YMDTokens
            /\ data[2] = "T"
            /\ data[3] \in HMSTokens
         THEN <<data[1]>>
         ELSE Raised

fix_geojson(data) == data

fix_concept(data) == data

fix_list(data) ==
    IF WordCount(data) > 1 THEN <<"'">> \o data \o <<"'">> ELSE data

fix_filepath(data) == SplitLast(data, "/")

\* self.fixers[dt](data); KeyError for a datatype that has no fixer
fixers(dt, data) ==
    CASE dt = "string"                     -> fix_string(data)
      [] dt = "number"                     -> fix_number(data)
      [] dt = "date"                       -> fix_date(data)
      [] dt = "geojson-feature-collection" -> fix_geojson(data)
      [] dt = "concept"                    -> fix_concept(data)
      [] dt = "concept-list"               -> fix_list(data)
      [] dt = "domain-value"               -> fix_concept(data)
      [] dt = "domain-value-list"          -> fix_list(data)
      [] dt = "file-list"                  -> fix_filepath(data)
      [] OTHER                             -> Raised

----------------------------------------------------------------------------
(* The installation the model is run on *)

Site  == <<"Site">>
Actor == <<"Actor">>

\* self.mappings.keys()
ModelNames == <<Site, Actor>>

Node(name, dt) == [arches_node_name |-> name, data_type |-> dt]

SiteNodes == <<Node(<<"Name">>, "string"),
               Node(<<"Built">>, "date"),
               Node(<<"Owner">>, "resource-instance")>>

ActorNodes == <<Node(<<"Name">>, "string")>>

LoadedMappings == (Site :> SiteNodes) @@ (Actor :> ActorNodes)

\* entitytypeids of the v3 nodes
OldIds == {<<"NAME", ".", "E41">>, <<"BUILT", "_", "DATE", ".", "E50">>}

\* entitytypeids of the v3 resources
SourceTypes == {<<"SITE", ".", "E18">>, <<"SITE", "_", "OLD", ".", "E18">>}

\* every rename table over ids with the given explicit targets: a key is
\* absent, null (derive the name) or renamed to a target
RenameTables(ids, targets) ==
    UNION {[S -> {None} \cup targets] : S \in SUBSET ids}

\* the queries a table poses
TableQueries(table) ==
    {IF table[id] = None THEN Normalize(id) ELSE table[id] : id \in DOMAIN table}

\* explicit targets of the rename tables: a field of Site, and a name that
\* no mapping has
Targets == {<<"Built">>, <<"Legacy">>}

\* explicit targets of the rename tables of Actor
ActorTargets == {<<"Name">>}

BusinessTables == {<<>>, <<"strings">>}

\* the values of the trees that process_children is run on by itself
FlatValues == {<<>>, <<"05-14-2003">>}

\* the entitytypeids and values of the trees of the exports migrate_data is
\* run on
ExportIds == {<<"BUILT", "_", "DATE", ".", "E50">>}
ExportValues == {<<"2003-05-14", "T", "00:00:00">>, <<"05-14-2003">>}

NodeAttrs(ids, values) ==
    [entitytypeid : ids, businesstablename : BusinessTables, value : values]

\* the child_entities trees of at most max nodes
Forests(max, ids, values) ==
    UNION {{[parent |-> p, nodes |-> a] :
               p \in {q \in [1..n -> 0..(n - 1)] : \A i \in 1..n : q[i] < i},
               a \in [1..n -> NodeAttrs(ids, values)]} : n \in 0..max}

\* the verdicts a scorer can give on posed, a set of <<query, choices>>:
\* one rank for each query that some list of more than one choice matches
\* none of exactly
Scorers(posed) ==
    LET open    == {p \in posed : Len(p[2]) > 1 /\ ExactMatches(p[1], p[2]) = {}}
        asked   == {p[1] : p \in open}
        sizes   == {Len(p[2]) : p \in open}
        top     == IF sizes = {} THEN 0
                   ELSE CHOOSE n \in sizes : \A m \in sizes : m <= n
        most(q) == CHOOSE n \in sizes :
                      /\ \E p \in open : p[1] = q /\ Len(p[2]) = n
                      /\ \A p \in open : p[1] = q => Len(p[2]) <= n
    IN  {f \in [asked -> 0..(top - 1)] : \A q \in asked : f[q] < most(q)}

\* the queries a rename table poses to a list of field names
Posed(table, fieldnames) == {<<q, fieldnames>> : q \in TableQueries(table)}

----------------------------------------------------------------------------
(* DTFixer: the loaded tables and the lookups *)

\* [node['arches_node_name'] for node in self.mappings[resource_name]['nodes']]
mapping_fieldnames(resource_name) ==
    [i \in DOMAIN mappings[resource_name] |->
        mappings[resource_name][i].arches_node_name]

\* self.names_n_dts[resource_name][field_name]: the last node of that name
names_n_dts(resource_name, field_name) ==
    LET nodes == mappings[resource_name]
        at    == {i \in DOMAIN nodes : nodes[i].arches_node_name = field_name}
    IN  nodes[CHOOSE i \in at : \A j \in at : j <= i].data_type

\* the scorer's verdict on a query, for the queries no choice matches exactly
Pick(query) == IF query \in DOMAIN best THEN best[query] ELSE 0

\* get_v4_fieldname returning an explicit target as it is
get_v4_fieldname_verbatim(resource_name, field_name) ==
    IF field_name \notin DOMAIN graphdiffs[resource_name] THEN None
    ELSE IF mapping_fieldnames(resource_name) = <<>> THEN Raised
    ELSE IF graphdiffs[resource_name][field_name] = None
         THEN extractOne(Normalize(field_name),
                         mapping_fieldnames(resource_name),
                         Pick(Normalize(field_name)))
         ELSE graphdiffs[resource_name][field_name]

\* None: the field is dropped; Raised: extractOne returned None, None[0]
get_v4_fieldname(resource_name, field_name) ==
    IF field_name \notin DOMAIN graphdiffs[resource_name] THEN None
    ELSE IF mapping_fieldnames(resource_name) = <<>> THEN Raised
    ELSE IF graphdiffs[resource_name][field_name] = None
         THEN extractOne(Normalize(field_name),
                         mapping_fieldnames(resource_name),
                         Pick(Normalize(field_name)))
         ELSE extractOne(graphdiffs[resource_name][field_name],
                         mapping_fieldnames(resource_name),
                         Pick(graphdiffs[resource_name][field_name]))

\* KeyError for a name that is no node of the mapping
fix_datatype(resource_name, field_name, data) ==
    IF field_name \notin Range(mapping_fieldnames(resource_name)) THEN Raised
    ELSE fixers(names_n_dts(resource_name, field_name), data)

\* process.extractOne(capwords(...), self.mappings.keys())[0]
convert_v3_rname(resource_name) ==
    extractOne(Normalize(resource_name), ModelNames, Pick(Normalize(resource_name)))

----------------------------------------------------------------------------
(* Migrator.process_children *)

\* A resource's child_entities: nodes 1..Len(nodes), parent[n] < n the node
\* that holds n in its child_entities (0: the resource itself); a node's
\* children are listed in increasing order.
RECURSIVE ChildrenFrom(_, _, _)
ChildrenFrom(tree, n, m) ==
    IF m > Len(tree.parent) THEN <<>>
    ELSE (IF tree.parent[m] = n THEN <<m>> ELSE <<>>)
         \o ChildrenFrom(tree, n, m + 1)

child_entities(tree, n) == ChildrenFrom(tree, n, 1)

NoWalk == [visited |-> <<>>, emitted |-> <<>>, failed |-> 0]

\* migrate_data is not running
DriverIdle ==
    /\ csvfiles = EmptyDict
    /\ process_model = None
    /\ todo = {}
    /\ rtype = None
    /\ nresources = 0
    /\ budget = [resources |-> 0, nodes |-> 0]
    /\ contrib = <<>>
    /\ produced = {}

\* one entry of v4_data[rm][ruuid]: {'ResourceID': ruuid, v4_field_name: data}
Entry(ruuid, field, data) == Update(ResourceID :> ruuid, field :> data)

\* the part of the Migrator that process_children reads and writes
MigratorState(data, fieldnames) ==
    [v4_data |-> data, resource_fieldnames |-> fieldnames, walk |-> NoWalk]

\* lines 243-252: append the entry and the field name
AppendEntry(st, child, resource_name, ruuid, v4_field_name, fixed_field_data) ==
    LET held == IF ruuid \in DOMAIN st.v4_data[resource_name]
                THEN st.v4_data[resource_name][ruuid] ELSE <<>>
        list == Append(held, Entry(ruuid, v4_field_name, fixed_field_data))
    IN  [st EXCEPT
           !.v4_data[resource_name] = Update(@, ruuid :> list),
           !.resource_fieldnames[resource_name] = Append(@, v4_field_name),
           !.walk.emitted = Append(@, child)]

\* ProcessOwnValue without the test of businesstablename
ProcessOwnValue_all(st, tree, child, resource_name, ruuid, v4_field_name) ==
    IF v4_field_name = None THEN st
    ELSE LET fixed_field_data ==
                 fix_datatype(resource_name, v4_field_name, tree.nodes[child].value)
         IN  IF fixed_field_data = Raised
             THEN [st EXCEPT !.walk.failed = child]
             ELSE AppendEntry(st, child, resource_name, ruuid,
                              v4_field_name, fixed_field_data)

\* ProcessOwnValue keying the entry by the v3 entitytypeid
ProcessOwnValue_oldname(st, tree, child, resource_name, ruuid, v4_field_name) ==
    IF v4_field_name = None THEN st
    ELSE LET fixed_field_data ==
                 fix_datatype(resource_name, v4_field_name, tree.nodes[child].value)
         IN  IF fixed_field_data = Raised
             THEN [st EXCEPT !.walk.failed = child]
             ELSE IF tree.nodes[child].businesstablename # <<>>
                  THEN AppendEntry(st, child, resource_name, ruuid,
                                   tree.nodes[child].entitytypeid,
                                   fixed_field_data)
                  ELSE st

\* lines 233-252 for one child, after its children have been processed
ProcessOwnValue(st, tree, child, resource_name, ruuid, v4_field_name) ==
    IF v4_field_name = None THEN st
    ELSE LET fixed_field_data ==
                 fix_datatype(resource_name, v4_field_name, tree.nodes[child].value)
         IN  IF fixed_field_data = Raised
             THEN [st EXCEPT !.walk.failed = child]
             ELSE IF tree.nodes[child].businesstablename # <<>>
                  THEN AppendEntry(st, child, resource_name, ruuid,
                                   v4_field_name, fixed_field_data)
                  ELSE st

\* process_children appending a child's entry before it recurses
RECURSIVE process_children_preorder(_, _, _, _, _)
process_children_preorder(st, tree, children, resource_name, ruuid) ==
    IF children = <<>> \/ st.walk.failed # 0 THEN st
    ELSE LET child == Head(children)
             v4_field_name ==
                 get_v4_fieldname(resource_name, tree.nodes[child].entitytypeid)
             seen == [st EXCEPT !.walk.visited = Append(@, child)]
         IN  IF v4_field_name = Raised
             THEN [seen EXCEPT !.walk.failed = child]
             ELSE LET own == ProcessOwnValue(seen, tree, child, resource_name,
                                             ruuid, v4_field_name)
                      below == process_children_preorder(
                                   own, tree, child_entities(tree, child),
                                   resource_name, ruuid)
                  IN  process_children_preorder(below, tree, Tail(children),
                                                resource_name, ruuid)

\* the `for child in children` loop; an exception ends every enclosing call
RECURSIVE process_children(_, _, _, _, _)
process_children(st, tree, children, resource_name, ruuid) ==
    IF children = <<>> \/ st.walk.failed # 0 THEN st
    ELSE LET child == Head(children)
             v4_field_name ==
                 get_v4_fieldname(resource_name, tree.nodes[child].entitytypeid)
             seen == [st EXCEPT !.walk.visited = Append(@, child)]
         IN  IF v4_field_name = Raised
             THEN [seen EXCEPT !.walk.failed = child]
             ELSE LET below == process_children(
                                   seen, tree, child_entities(tree, child),
                                   resource_name, ruuid)
                  IN  IF below.walk.failed # 0 THEN below
                      ELSE process_children(
                               ProcessOwnValue(below, tree, child, resource_name,
                                               ruuid, v4_field_name),
                               tree, Tail(children), resource_name, ruuid)

----------------------------------------------------------------------------
(* Migrator.create_resource_rows *)

\* PackRow without the `if not node_name in newrow.keys()` test
RECURSIVE PackRowOverwrite(_, _, _, _)
PackRowOverwrite(resource, i, newrow, added) ==
    IF i > Len(resource)
    THEN [newrow |-> newrow, added |-> added]
    ELSE PackRowOverwrite(resource, i + 1, Update(newrow, resource[i]),
                          added \cup {i})

\* PackRow leaving the loop at the first entry that adds nothing
RECURSIVE PackRowBreak(_, _, _, _)
PackRowBreak(resource, i, newrow, added) ==
    IF i > Len(resource) \/ DOMAIN resource[i] \subseteq DOMAIN newrow
    THEN [newrow |-> newrow, added |-> added]
    ELSE PackRowBreak(resource, i + 1,
                      Update(newrow, Restrict(resource[i],
                                              DOMAIN resource[i] \ DOMAIN newrow)),
                      added \cup {i})

\* the `for index, row in enumerate(resource)` loop of one pass, from index i
RECURSIVE PackRow(_, _, _, _)
PackRow(resource, i, newrow, added) ==
    IF i > Len(resource)
    THEN [newrow |-> newrow, added |-> added]
    ELSE LET row   == resource[i]
             fresh == DOMAIN row \ DOMAIN newrow
         IN  PackRow(resource, i + 1,
                     Update(newrow, Restrict(row, fresh)),
                     IF fresh # {} THEN added \cup {i} ELSE added)

\* resource = [v for i, v in enumerate(resource) if not i in added]
RECURSIVE StripAdded(_, _, _)
StripAdded(resource, i, added) ==
    IF i > Len(resource) THEN <<>>
    ELSE (IF i \in added THEN <<>> ELSE <<resource[i]>>)
         \o StripAdded(resource, i + 1, added)

\* create_resource_rows with outrows.insert(0, newrow) for outrows.append(newrow)
RECURSIVE create_resource_rows_prepend(_)
create_resource_rows_prepend(resource) ==
    IF Len(resource) = 0 THEN <<>>
    ELSE LET pass == PackRow(resource, 1, EmptyDict, {})
         IN  create_resource_rows_prepend(StripAdded(resource, 1, pass.added))
             \o <<pass.newrow>>

RECURSIVE create_resource_rows(_)
create_resource_rows(resource) ==
    IF Len(resource) = 0 THEN <<>>
    ELSE LET pass == PackRow(resource, 1, EmptyDict, {})
         IN  <<pass.newrow>>
             \o create_resource_rows(StripAdded(resource, 1, pass.added))

----------------------------------------------------------------------------
(* Spec: Migrator.migrate_data on every bounded export *)

\* the default of process_model
All == <<"<all>">>

\* resource['entityid'] of the k-th resource of a type
Ruuid(resource_type, k) == resource_type \o <<"#", ToString(k)>>

\* resource_model_names[resource_type]
rm_name(resource_type) == convert_v3_rname(resource_type)

\* if process_model != rm_name and process_model != '<all>': continue
Skipped(resource_type) ==
    process_model # rm_name(resource_type) /\ process_model # All

\* after_resource with the exception caught and the model passed over
after_resource_caught(failed) == IF failed THEN "written" ELSE "resources"

\* where migrate_data is after process_children on one resource: nothing
\* catches an exception, it leaves migrate_data
after_resource(failed) == IF failed THEN "aborted" ELSE "resources"

\* lines 314-317: the header, ResourceID first, the other names in the order
\* of a set
csv_header(fieldnames) ==
    [first |-> ResourceID, rest |-> Range(fieldnames) \ {ResourceID}]

\* lines 322-325: the rows of the resources in the order of .values()
RECURSIVE csv_rows(_, _)
csv_rows(data, order) ==
    IF order = <<>> THEN <<>>
    ELSE create_resource_rows(data[Head(order)]) \o csv_rows(data, Tail(order))

\* the orders a dict can list its keys in
KeyOrders(dict) ==
    {o \in [1..Cardinality(DOMAIN dict) -> DOMAIN dict] :
        \A k \in DOMAIN dict : \E i \in DOMAIN o : o[i] = k}

\* del self.v4_data[rm_name] left out
release_keep(data, name) == data

\* del self.v4_data[rm_name]
release(data, name) == Restrict(data, DOMAIN data \ {name})

Init ==
    /\ pc = "start"
    /\ input = <<>>
    /\ output = <<>>
    /\ mappings = LoadedMappings
    /\ \E site \in RenameTables(ExportIds, Targets),
          actor \in RenameTables(ExportIds, ActorTargets) :
          graphdiffs = (Site :> site) @@ (Actor :> actor)
    /\ best \in Scorers(
           UNION {Posed(graphdiffs[rm], mapping_fieldnames(rm)) :
                     rm \in Range(ModelNames)}
           \cup {<<Normalize(t), ModelNames>> : t \in SourceTypes})
    /\ v4_data = EmptyDict
    /\ resource_fieldnames = EmptyDict
    /\ walk = NoWalk
    /\ DriverIdle

\* lines 285-292: the call, on an export whose resources are of the types keys
StartMigrate ==
    /\ pc = "start"
    /\ \E keys \in SUBSET SourceTypes :
          /\ Cardinality(keys) <= MaxResources
          /\ todo' = keys
          /\ resource_fieldnames' =
                 [rm \in {rm_name(t) : t \in keys} |-> <<ResourceID>>]
    /\ process_model' \in {All} \cup Range(ModelNames)
    /\ budget' = [resources |-> MaxResources, nodes |-> MaxExportNodes]
    /\ pc' = "loop"
    /\ UNCHANGED <<input, output, fixer, v4_data, walk, csvfiles, rtype,
                   nresources, contrib, produced>>

\* lines 294-299: the next type is not of the model asked for
SkipType ==
    /\ pc = "loop"
    /\ \E t \in todo :
          /\ Skipped(t)
          /\ todo' = todo \ {t}
    /\ budget' = [budget EXCEPT !.resources = @ - 1]
    /\ UNCHANGED <<pc, input, output, fixer, migrator, csvfiles, process_model,
                   rtype, nresources, contrib, produced>>

\* lines 294-304: the next type is to be processed
BeginType ==
    /\ pc = "loop"
    /\ \E t \in todo :
          /\ ~Skipped(t)
          /\ rtype' = t
          /\ v4_data' = Update(v4_data, rm_name(t) :> EmptyDict)
    /\ nresources' \in 1..(budget.resources - (Cardinality(todo) - 1))
    /\ budget' = [budget EXCEPT !.resources = @ - nresources']
    /\ contrib' = <<>>
    /\ pc' = "resources"
    /\ UNCHANGED <<input, output, fixer, resource_fieldnames, walk, csvfiles,
                   process_model, todo, produced>>

\* lines 305-308: one resource of the type; process_children returns or raises
ProcessResource ==
    /\ pc = "resources"
    /\ Len(contrib) < nresources
    /\ \E tree \in Forests(budget.nodes, ExportIds, ExportValues) :
          LET rm == rm_name(rtype)
              st == process_children(
                        MigratorState(v4_data, resource_fieldnames), tree,
                        child_entities(tree, 0), rm,
                        Ruuid(rtype, Len(contrib) + 1))
          IN  /\ v4_data' = st.v4_data
              /\ resource_fieldnames' = st.resource_fieldnames
              /\ walk' = st.walk
              /\ contrib' = Append(contrib,
                     [data   |-> \E n \in DOMAIN tree.nodes :
                                   /\ tree.nodes[n].entitytypeid
                                         \in DOMAIN graphdiffs[rm]
                                   /\ tree.nodes[n].businesstablename # <<>>,
                      raised |-> st.walk.failed # 0])
              /\ produced' = produced \cup
                     {<<rm, r>> : r \in {Ruuid(rtype, Len(contrib) + 1)}
                                        \cap DOMAIN st.v4_data[rm]}
              /\ budget' = [budget EXCEPT !.nodes = @ - Len(tree.nodes)]
              /\ pc' = after_resource(st.walk.failed # 0)
    /\ UNCHANGED <<input, output, fixer, csvfiles, process_model, todo, rtype,
                   nresources>>

\* lines 309-325: the CSV of the model is opened, truncated and written
WriteCSV ==
    /\ pc = "resources"
    /\ Len(contrib) = nresources
    /\ \E order \in KeyOrders(v4_data[rm_name(rtype)]) :
          csvfiles' = Update(csvfiles, rm_name(rtype) :>
              [header |-> csv_header(resource_fieldnames[rm_name(rtype)]),
               rows   |-> csv_rows(v4_data[rm_name(rtype)], order)])
    /\ pc' = "written"
    /\ UNCHANGED <<input, output, fixer, migrator, process_model, todo, rtype,
                   nresources, budget, contrib, produced>>

\* lines 327-331: the entry of the model is deleted, the iteration ends
ReleaseModel ==
    /\ pc = "written"
    /\ v4_data' = release(v4_data, rm_name(rtype))
    /\ todo' = todo \ {rtype}
    /\ rtype' = None
    /\ nresources' = 0
    /\ contrib' = <<>>
    /\ walk' = NoWalk
    /\ pc' = "loop"
    /\ UNCHANGED <<input, output, fixer, resource_fieldnames, csvfiles,
                   process_model, budget, produced>>

\* the loop has gone over every type: migrate_data returns
Finish ==
    /\ pc = "loop"
    /\ todo = {}
    /\ pc' = "returned"
    /\ UNCHANGED <<input, output, fixer, migrator, driver>>

Next ==
    \/ StartMigrate
    \/ SkipType
    \/ BeginType
    \/ ProcessResource
    \/ WriteCSV
    \/ ReleaseModel
    \/ Finish

Spec == Init /\ [][Next]_vars

\* the rows of the CSV of the iteration under way that carry resource k
RowsOf(k) ==
    LET rows == csvfiles[rm_name(rtype)].rows
    IN  {i \in DOMAIN rows : rows[i][ResourceID] = Ruuid(rtype, k)}

\* C3 as stated: a resource that produces no field (no child entities, or
\* only structural or dropped nodes) has exactly one row in the CSV, holding
\* the resource identifier alone.
C3_ZeroFieldsOneRow ==
    pc = "written" =>
        \A k \in DOMAIN contrib :
            ~contrib[k].data =>
                /\ Cardinality(RowsOf(k)) = 1
                /\ \A i \in RowsOf(k) :
                       DOMAIN csvfiles[rm_name(rtype)].rows[i] = {ResourceID}

\* C3 amended: a resource that produces no field has no row in the CSV (it
\* has no entry in v4_data); a resource has rows exactly if it has a data
\* node with a renamed id.
C3_ZeroFieldsNoRow ==
    pc = "written" =>
        \A k \in DOMAIN contrib :
            /\ contrib[k].data <=> RowsOf(k) # {}
            /\ contrib[k].data <=> Ruuid(rtype, k) \in DOMAIN v4_data[rm_name(rtype)]

C3_Witness ==
    /\ pc = "written"
    /\ \E k \in DOMAIN contrib : ~contrib[k].data
    /\ budget.nodes < MaxExportNodes
    /\ DOMAIN graphdiffs[rm_name(rtype)] # {}

\* C5: the columns of every row written, and of every header, are declared
\* field names of the model of the file, or ResourceID.
C5_ColumnsAreDeclared ==
    \A rm \in DOMAIN csvfiles :
        LET declared == Range(mapping_fieldnames(rm)) \cup {ResourceID}
        IN  /\ csvfiles[rm].header.rest \subseteq declared
            /\ \A i \in DOMAIN csvfiles[rm].rows :
                   DOMAIN csvfiles[rm].rows[i] \subseteq declared

C5_Witness ==
    /\ Site \in DOMAIN csvfiles
    /\ \E id \in DOMAIN graphdiffs[Site] : graphdiffs[Site][id] = <<"Legacy">>
    /\ \E i \in DOMAIN csvfiles[Site].rows :
          DOMAIN csvfiles[Site].rows[i] # {ResourceID}

\* the iteration under way has met an error
Failed == \E k \in DOMAIN contrib : contrib[k].raised

\* a type that is still to be processed, for another model than the one of
\* the iteration under way
OtherModelLeft(t) ==
    /\ t \in todo \ {rtype}
    /\ ~Skipped(t)
    /\ rm_name(t) # rm_name(rtype)

\* C6 as stated: failure is isolated: when migrate_data has ended on an error
\* of one model, every other matched model has been processed and its CSV
\* written.
C6_FailureIsolated ==
    pc = "aborted" =>
        \A t \in todo : OtherModelLeft(t) => rm_name(t) \in DOMAIN csvfiles

\* C6 amended: failure ends the run: an error in process_children leaves
\* migrate_data at once, with the failing type unfinished, its entries still
\* in v4_data and its CSV not opened; nothing is processed or written after.
C6_FailureEndsTheRun ==
    /\ [](Failed => /\ pc = "aborted"
                    /\ rtype \in todo
                    /\ rm_name(rtype) \in DOMAIN v4_data)
    /\ [][pc # "aborted"]_vars

C6_Witness ==
    /\ pc = "aborted"
    /\ Failed
    /\ \E t \in todo : OtherModelLeft(t) /\ rm_name(t) \notin DOMAIN csvfiles

\* C9: v4_data holds the entries of at most one model; it is empty at the
\* top of the loop and when migrate_data has returned; a CSV is written only
\* once every resource of the type has been processed.
C9_OneModelHeld ==
    /\ [](/\ Cardinality(DOMAIN v4_data) <= 1
          /\ pc \in {"loop", "returned"} => v4_data = EmptyDict)
    /\ [][(csvfiles' # csvfiles \/ pc' = "written") =>
            /\ pc = "resources"
            /\ Len(contrib) = nresources
            /\ ~Failed
            /\ DOMAIN v4_data = {rm_name(rtype)}]_vars

C9_Witness ==
    /\ pc = "loop"
    /\ csvfiles # EmptyDict
    /\ v4_data = EmptyDict
    /\ \E t \in todo : ~Skipped(t)

\* the CSV of model rm has a row that carries resource r
HasRow(rm, r) ==
    /\ rm \in DOMAIN csvfiles
    /\ \E i \in DOMAIN csvfiles[rm].rows : csvfiles[rm].rows[i][ResourceID] = r

\* C11: when migrate_data has returned, the CSV of a model holds the rows of
\* every processed resource that resolved to the model and produced a field,
\* also when several source types resolve to the same model.
C11_RowsOfEveryTypeWritten ==
    pc = "returned" => \A e \in produced : HasRow(e[1], e[2])

----------------------------------------------------------------------------
(* SpecRows: create_resource_rows applied to every bounded entry list *)

RowFields == {<<"Name">>, <<"Built">>, <<"Kind">>}
RowValues == {<<"a">>, <<"b">>}
RowRuuid  == <<"r1">>

RECURSIVE SeqsUpTo(_, _)
SeqsUpTo(S, n) ==
    IF n = 0 THEN {<<>>}
    ELSE LET shorter == SeqsUpTo(S, n - 1)
         IN  shorter \cup {Append(s, x) : s \in {t \in shorter : Len(t) = n - 1}, x \in S}

RowPairs == RowFields \X RowValues

InitRows ==
    /\ pc = "rows"
    /\ input \in SeqsUpTo(RowPairs, MaxEntries)
    /\ output = <<>>
    /\ mappings = LoadedMappings
    /\ graphdiffs = [rm \in Range(ModelNames) |-> EmptyDict]
    /\ best = EmptyDict
    /\ v4_data = EmptyDict
    /\ resource_fieldnames = EmptyDict
    /\ walk = NoWalk
    /\ DriverIdle

Condense ==
    /\ pc = "rows"
    /\ output' = create_resource_rows(
                     [i \in DOMAIN input |-> Entry(RowRuuid, input[i][1], input[i][2])])
    /\ pc' = "rows_done"
    /\ UNCHANGED <<input, fixer, migrator, driver>>

NextRows == Condense

SpecRows == InitRows /\ [][NextRows]_vars

\* how many entries of the first n of the input carry field f
Occurrences(f, n) == Cardinality({i \in 1..n : input[i][1] = f})

MaxMultiplicity ==
    IF input = <<>> THEN 0
    ELSE CHOOSE m \in 1..Len(input) :
           /\ \E f \in RowFields : Occurrences(f, Len(input)) = m
           /\ \A f \in RowFields : Occurrences(f, Len(input)) <= m

\* the rows of output that hold value v under field f
RowsHolding(f, v) ==
    {k \in DOMAIN output : f \in DOMAIN output[k] /\ output[k][f] = v}

\* C1: the rows returned by create_resource_rows partition the entries: each
\* (field id, value) pair is held by as many rows as it has entries in the
\* input, the rows hold as many cells as there are entries, and every cell
\* of a row is a pair of the input.
C1_RowsPartitionEntries ==
    pc = "rows_done" =>
        /\ \A p \in RowPairs :
               Cardinality(RowsHolding(p[1], p[2]))
                 = Cardinality({i \in DOMAIN input : input[i] = p})
        /\ \A k \in DOMAIN output :
               \A f \in DOMAIN output[k] \ {ResourceID} :
                   <<f, output[k][f]>> \in Range(input)
        /\ Cardinality({<<k, f>> \in (DOMAIN output) \X RowFields :
                          f \in DOMAIN output[k]}) = Len(input)

C1_Witness ==
    /\ pc = "rows_done"
    /\ Len(output) = 2
    /\ Len(input) = 4
    /\ \E i, j \in DOMAIN input : i < j /\ input[i][1] = input[j][1]
                                      /\ input[i][2] # input[j][2]

\* C2: the number of rows is the largest number of times one field id
\* occurs in the input.
C2_RowCountIsMaxMultiplicity ==
    (pc = "rows_done" /\ input # <<>>) => Len(output) = MaxMultiplicity

C2_Witness ==
    /\ pc = "rows_done"
    /\ MaxMultiplicity = 2
    /\ Len(input) = 4
    /\ input[1][1] = input[2][1]
    /\ input[3][1] = input[4][1]

\* The single-pass greedy algorithm: pack entries into the current row in
\* input order; an entry whose field id is already in the current row closes
\* that row and starts a new one seeded with the resource identifier and the
\* entry.  (No row for no entries, as create_resource_rows.)
RECURSIVE GreedyFrom(_, _, _)
GreedyFrom(i, current, closed) ==
    IF i > Len(input) THEN Append(closed, current)
    ELSE IF input[i][1] \in DOMAIN current
         THEN GreedyFrom(i + 1, Entry(RowRuuid, input[i][1], input[i][2]),
                         Append(closed, current))
         ELSE GreedyFrom(i + 1, Update(current, input[i][1] :> input[i][2]),
                         closed)

GreedyRows ==
    IF input = <<>> THEN <<>> ELSE GreedyFrom(1, ResourceID :> RowRuuid, <<>>)

\* C10 as stated: create_resource_rows returns the rows of the single-pass
\* greedy algorithm, in the same order.
C10_SameAsSinglePassGreedy ==
    pc = "rows_done" => output = GreedyRows

\* C10 amended: create_resource_rows returns the rows of the multi-pass
\* first-fit algorithm: row k holds the resource identifier and, for every
\* field id occurring at least k times, the value of its k-th occurrence.
C10_RowKHoldsKthOccurrences ==
    pc = "rows_done" =>
        /\ Len(output) = MaxMultiplicity
        /\ \A k \in DOMAIN output :
               /\ DOMAIN output[k] =
                      {ResourceID} \cup
                      {f \in RowFields : Occurrences(f, Len(input)) >= k}
               /\ output[k][ResourceID] = RowRuuid
        /\ \A i \in DOMAIN input :
               output[Occurrences(input[i][1], i)][input[i][1]] = input[i][2]

C10_Witness ==
    /\ pc = "rows_done"
    /\ output # GreedyRows
    /\ Len(output) = 2

----------------------------------------------------------------------------
(* SpecFlat: process_children on every bounded tree and rename table *)

FlatRuuid == <<"r1">>

InitFlat ==
    /\ pc = "flat"
    /\ input = <<>>
    /\ output = <<>>
    /\ mappings = LoadedMappings
    /\ \E table \in RenameTables(OldIds, Targets) :
          /\ graphdiffs = [rm \in Range(ModelNames) |-> table]
          /\ best \in Scorers(Posed(table, mapping_fieldnames(Site)))
    /\ v4_data = (Site :> EmptyDict)
    /\ resource_fieldnames = (Site :> <<ResourceID>>)
    /\ walk = NoWalk
    /\ DriverIdle

\* process_children(resource['child_entities'], rm_name, ruuid) on one tree;
\* the call returns or raises
Flatten ==
    /\ pc = "flat"
    /\ \E tree \in Forests(MaxNodes, OldIds, FlatValues) :
          LET st == process_children(MigratorState(v4_data, resource_fieldnames),
                                     tree, child_entities(tree, 0), Site, FlatRuuid)
          IN  /\ input' = tree
              /\ v4_data' = st.v4_data
              /\ resource_fieldnames' = st.resource_fieldnames
              /\ walk' = st.walk
              /\ pc' = IF st.walk.failed = 0 THEN "flat_done" ELSE "flat_raised"
    /\ UNCHANGED <<output, fixer, driver>>

NextFlat == Flatten

SpecFlat == InitFlat /\ [][NextFlat]_vars

FlatNodes == DOMAIN input.nodes

RECURSIVE IsDescendant(_, _)
IsDescendant(d, n) ==
    /\ d # 0
    /\ \/ input.parent[d] = n
       \/ IsDescendant(input.parent[d], n)

InSubtree(d, n) == d = n \/ IsDescendant(d, n)

Position(seq, x) == CHOOSE i \in DOMAIN seq : seq[i] = x

FlatEntries ==
    IF FlatRuuid \in DOMAIN v4_data[Site] THEN v4_data[Site][FlatRuuid] ELSE <<>>

\* the entry list is the list of the entries of the nodes of walk.emitted
EntriesAreEmitted ==
    /\ Len(FlatEntries) = Len(walk.emitted)
    /\ \A i \in DOMAIN FlatEntries :
          LET node == input.nodes[walk.emitted[i]]
              name == get_v4_fieldname(Site, node.entitytypeid)
          IN  FlatEntries[i] = Entry(FlatRuuid, name,
                                     fix_datatype(Site, name, node.value))

SiblingSubtreesInOrder ==
    \A a, b \in FlatNodes :
        (a < b /\ input.parent[a] = input.parent[b]) =>
            \A x, y \in Range(walk.emitted) :
                (InSubtree(x, a) /\ InSubtree(y, b)) =>
                    Position(walk.emitted, x) < Position(walk.emitted, y)

\* C7 as stated: depth-first pre-order: the entry of a node is appended
\* before the entry of each of its descendants, and sibling subtrees are
\* emitted in input order.
C7_PreOrder ==
    pc # "flat" =>
        /\ EntriesAreEmitted
        /\ SiblingSubtreesInOrder
        /\ \A n, d \in Range(walk.emitted) :
               IsDescendant(d, n) =>
                   Position(walk.emitted, n) < Position(walk.emitted, d)

\* C7 amended: depth-first post-order: the entry of a node is appended after
\* the entry of each of its descendants, and sibling subtrees are emitted in
\* input order.
C7_PostOrder ==
    pc # "flat" =>
        /\ EntriesAreEmitted
        /\ SiblingSubtreesInOrder
        /\ \A n, d \in Range(walk.emitted) :
               IsDescendant(d, n) =>
                   Position(walk.emitted, d) < Position(walk.emitted, n)

C7_Witness ==
    /\ pc = "flat_done"
    /\ Len(FlatEntries) = 2
    /\ walk.emitted = <<2, 1>>
    /\ input.parent[2] = 1

\* the node is to contribute an entry: a data node whose id is renamed
Contributes(n) ==
    /\ input.nodes[n].entitytypeid \in DOMAIN graphdiffs[Site]
    /\ input.nodes[n].businesstablename # <<>>

Count(seq, x) == Cardinality({i \in DOMAIN seq : seq[i] = x})

\* C8: every node is visited whatever its ancestors are; a node contributes
\* one entry if its id is a key of the rename table and its businesstablename
\* is not empty, and none otherwise; a structural node and a node whose id is
\* not in the rename table raise no error.
C8_OnlyDataNodesAct ==
    pc # "flat" =>
        /\ walk.failed # 0 => Contributes(walk.failed)
        /\ walk.failed = 0 =>
               /\ \A n \in FlatNodes : Count(walk.visited, n) = 1
               /\ \A n \in FlatNodes :
                      Count(walk.emitted, n) = IF Contributes(n) THEN 1 ELSE 0
               /\ EntriesAreEmitted

----------------------------------------------------------------------------
(* SpecField: get_v4_fieldname on every bounded mapping and rename table *)

PoolNames   == {<<"Name">>, <<"name">>, <<"Built">>}
PoolTargets == {<<"Name">>, <<"name">>, <<"Legacy">>}

PoolMappings ==
    {[i \in DOMAIN names |-> Node(names[i], "string")] :
        names \in SeqsUpTo(PoolNames, MaxMappingNodes)}

InitField ==
    /\ pc = "field"
    /\ input \in OldIds
    /\ output = <<>>
    /\ \E nodes \in PoolMappings :
          mappings = (Site :> nodes) @@ (Actor :> ActorNodes)
    /\ \E table \in RenameTables(OldIds, PoolTargets) :
          /\ graphdiffs = [rm \in Range(ModelNames) |-> table]
          /\ best \in Scorers(Posed(table, mapping_fieldnames(Site)))
    /\ v4_data = EmptyDict
    /\ resource_fieldnames = EmptyDict
    /\ walk = NoWalk
    /\ DriverIdle

\* a call that returns a name or None
ResolveField ==
    /\ pc = "field"
    /\ get_v4_fieldname(Site, input) # Raised
    /\ output' = get_v4_fieldname(Site, input)
    /\ pc' = "field_done"
    /\ UNCHANGED <<input, fixer, migrator, driver>>

\* a call that raises
ResolveFieldRaises ==
    /\ pc = "field"
    /\ get_v4_fieldname(Site, input) = Raised
    /\ output' = Raised
    /\ pc' = "field_raised"
    /\ UNCHANGED <<input, fixer, migrator, driver>>

NextField == ResolveField \/ ResolveFieldRaises

SpecField == InitField /\ [][NextField]_vars

Renamed == input \in DOMAIN graphdiffs[Site] /\ graphdiffs[Site][input] # None

\* C4 as stated: an old field id with an explicit target resolves to that
\* target unchanged, whatever the mapping field names are.
C4_ExplicitTargetVerbatim ==
    (pc = "field_done" /\ Renamed) => output = graphdiffs[Site][input]

\* C4 amended: an old field id with an explicit target resolves to the best
\* fuzzy match of the target among the mapping field names: always one of
\* those names, and the first of them that equals the target after
\* processing when there is one (the target itself when it is a mapping
\* field name no earlier name is equal to after processing); the call
\* raises when the mapping has no field names.
C4_ExplicitTargetFuzzyMatched ==
    (pc # "field" /\ Renamed) =>
        LET target == graphdiffs[Site][input]
            names  == mapping_fieldnames(Site)
            same   == {i \in DOMAIN names :
                         full_process(names[i]) = full_process(target)}
        IN  /\ (names = <<>>) <=> (output = Raised)
            /\ names # <<>> => output \in Range(names)
            /\ same # {} => /\ output = names[CHOOSE i \in same : \A j \in same : i <= j]
                            /\ (\A i \in same : names[i] = target) => output = target

C4_Witness ==
    /\ pc = "field_done"
    /\ Renamed
    /\ graphdiffs[Site][input] \notin Range(mapping_fieldnames(Site))
    /\ output # graphdiffs[Site][input]
    /\ Len(mapping_fieldnames(Site)) = 2

====
